---- MODULE Spec2Model ----
(***************************************************************************)
(* Model of bot.py: the Telegram cloud-storage bot.                        *)
(*                                                                         *)
(* State: the two TinyDB tables (files_db, folders_db), the storage        *)
(* directory, python-telegram-bot's per-user user_data and conversation    *)
(* state, the wall clock, the handler coroutines in flight and the last    *)
(* reply sent to each user.                                                *)
(*                                                                         *)
(* A handler coroutine is split at its await points: everything between    *)
(* two awaits is one atomic step of the asyncio event loop.  Strings whose *)
(* content the code inspects (message text, Telegram file paths) are       *)
(* sequences of one-character strings.                                     *)
(*                                                                         *)
(* The Telegram objects are taken to carry what the handlers read of them  *)
(* (update.message of a button press, file_info.file_url and               *)
(* file_info.mime_type), and reply_text / edit_message_text to deliver the *)
(* reply to the user of the update.  The calls of the storage and of the   *)
(* network may raise; the clock moves on between two readings.             *)
(***************************************************************************)
EXTENDS Integers, Sequences, FiniteSets, TLC

\* ------------------------------------------------------------------ bounds
MaxUpdates == 3       \* updates delivered to the bot in one run
MaxNow == 2           \* last clock tick
TicksPerSecond == 2   \* clock ticks per wall-clock second
MaxLen == 2           \* longest message text
MaxTasks == 2         \* handler coroutines in flight (concurrent runs)
MaxFaults == 1        \* calls of the storage or the network that raise

\* --------------------------------------------------------------- constants
FOLDER_NAME == 1
END == 0 - 1

Users == {1, 2}
FileIds == {1, 2}
Alphabet == {" ", "a"}
Tasks == 1..MaxTasks

\* ----------------------------------------------------------------- strings
Texts == UNION {[1..n -> Alphabet] : n \in 1..MaxLen}

RECURSIVE lstrip(_)
lstrip(s) == IF s # <<>> /\ Head(s) = " " THEN lstrip(Tail(s)) ELSE s

RECURSIVE rstrip(_)
rstrip(s) ==
  IF s # <<>> /\ s[Len(s)] = " " THEN rstrip(SubSeq(s, 1, Len(s) - 1)) ELSE s

\* Mutants of strip: nothing removed; only the leading whitespace removed.
strip_nothing(s) == s

strip_leading(s) == lstrip(s)

\* str.strip()
strip(s) == rstrip(lstrip(s))

\* s.split('/')[-1]: the part of s after its last '/'
RECURSIVE LastSegment(_)
LastSegment(s) ==
  IF \E i \in 1..Len(s) : s[i] = "/"
  THEN LastSegment(Tail(s))
  ELSE s

\* ------------------------------------------------------------------- state
VARIABLES
  folders_db,   \* TinyDB table folders.json: the documents, in doc_id order
  files_db,     \* TinyDB table files.json: the documents, in doc_id order
  user_dirs,    \* the per-user directories under BASE_STORAGE_PATH
  blobs,        \* the files under BASE_STORAGE_PATH, with their content
  user_data,    \* context.user_data of each user: 'new_folder_name'
  conv,         \* ConversationHandler state of each user (END: none active)
  now,          \* the clock when it was last read, in ticks
  tasks,        \* the handler coroutines in flight, suspended at an await
  reply,        \* the last message the bot sent to each user
  updates,      \* number of updates delivered so far
  faults        \* number of calls that raised so far

vars == <<folders_db, files_db, user_dirs, blobs, user_data, conv, now,
          tasks, reply, updates, faults>>

\* Optional values: <<>> is None, <<v>> is v.
None == <<>>
Some(v) == <<v>>

\* f"{timestamp}_{original_filename}": the timestamp has a fixed width, so
\* the string is determined by, and determines, the pair.
NoFile == [timestamp |-> 0 - 1, original |-> <<>>]

IdleTask ==
  [pc |-> "idle", user |-> 0, folder_name |-> <<>>, file_id |-> 0,
   mime_type |-> "", local_filename |-> NoFile,
   files |-> <<>>, folders |-> <<>>]

NoReply == [kind |-> "none", folder_name |-> <<>>, local_filename |-> NoFile,
            keyboard |-> <<>>]

Message(kind) == [NoReply EXCEPT !.kind = kind]

\* folders.json outlives the process: the bot starts with the table empty,
\* or with the folder an earlier run created for user 1.
StoredFolders ==
  {<<>>,
   <<[name |-> <<"a">>, user_id |-> 1, parent |-> <<"/">>, created_at |-> 0]>>}

Init ==
  /\ folders_db \in StoredFolders
  /\ files_db = <<>>
  /\ user_dirs = {}
  /\ blobs = {}
  /\ user_data = [u \in Users |-> None]
  /\ conv = [u \in Users |-> END]
  /\ now = 0
  /\ tasks = [t \in Tasks |-> IdleTask]
  /\ reply = [u \in Users |-> NoReply]
  /\ updates = 0
  /\ faults = 0

\* ------------------------------------------------------------- TinyDB query
\* Table.search(cond) is SelectSeq: the documents satisfying cond, in doc_id
\* order.  Query().field == value: a document without the field does not
\* match.
FieldIs(doc, field, value) == field \in DOMAIN doc /\ doc[field] = value

\* datetime.now().strftime("%Y%m%d_%H%M%S"): the clock, to the second
strftime(t) == t \div TicksPerSecond

\* datetime.now().isoformat(): the clock, to the microsecond
isoformat(t) == t

\* ------------------------------------------------------------- FileManager
list_user_files(user_id, folder_path) ==
  SelectSeq(files_db, LAMBDA File : FieldIs(File, "user_id", user_id)
                                /\ FieldIs(File, "folder", folder_path))

\* Mutant of list_user_folders: the owner forgotten.
list_user_folders_any_user(user_id, parent_folder) ==
  SelectSeq(folders_db, LAMBDA Folder : FieldIs(Folder, "parent", parent_folder))

list_user_folders(user_id, parent_folder) ==
  SelectSeq(folders_db, LAMBDA Folder : FieldIs(Folder, "user_id", user_id)
                                    /\ FieldIs(Folder, "parent", parent_folder))

\* ---------------------------------------------------------------- dispatch
\* The application hands an update to a handler; the handler runs in the
\* lowest free coroutine slot.
Idle == \A t \in Tasks : tasks[t].pc = "idle"

FreeSlot(t) ==
  /\ tasks[t].pc = "idle"
  /\ \A s \in Tasks : s < t => tasks[s].pc # "idle"

Deliver == updates < MaxUpdates /\ updates' = updates + 1

\* A call of the storage or of the network raises.
Raise == faults < MaxFaults /\ faults' = faults + 1

\* datetime.now(): the clock has moved on, by any amount, since it was last
\* read.
ReadClock == \E d \in 0..(MaxNow - now) : now' = now + d

\* ------------------------------------------------------------ create_folder
\* Mutants of the existence check: the name forgotten, the owner forgotten,
\* the check dropped, only the first document looked at.
ExistingFolderAnyName(user_id, folder_name) ==
  SelectSeq(folders_db, LAMBDA Folder : FieldIs(Folder, "user_id", user_id))

ExistingFolderAnyUser(user_id, folder_name) ==
  SelectSeq(folders_db, LAMBDA Folder : FieldIs(Folder, "name", folder_name))

ExistingFolderUnchecked(user_id, folder_name) == <<>>

ExistingFolderFirstOnly(user_id, folder_name) ==
  SelectSeq(IF folders_db = <<>> THEN <<>> ELSE <<Head(folders_db)>>,
         LAMBDA Folder : FieldIs(Folder, "name", folder_name)
                         /\ FieldIs(Folder, "user_id", user_id))

\* bot.py 266-271: the folders of user_id named folder_name
ExistingFolder(user_id, folder_name) ==
  SelectSeq(folders_db, LAMBDA Folder : FieldIs(Folder, "name", folder_name)
                                    /\ FieldIs(Folder, "user_id", user_id))

\* Mutant of the inserted document: the folder filed under its own path.
NewFolderSelfParent(user_id, folder_name) ==
  [name |-> folder_name, user_id |-> user_id,
   parent |-> <<"/">> \o folder_name, created_at |-> isoformat(now')]

\* bot.py 280-285: the document create_folder inserts
NewFolder(user_id, folder_name) ==
  [name |-> folder_name, user_id |-> user_id, parent |-> <<"/">>,
   created_at |-> isoformat(now')]

\* Mutant of create_folder: the new document written over the table instead
\* of being inserted into it.
CreateFolderRunReplacing(t, user_id, ud, io) ==
  LET folder_name == IF ud = None THEN <<>> ELSE ud[1]
      existing_folder == ExistingFolder(user_id, folder_name)
      pc == IF folder_name = <<>> THEN "cf_reply_prompt"
            ELSE IF io = "search_raises" THEN "cf_reply_error"
            ELSE IF existing_folder # <<>> THEN "cf_reply_exists"
            ELSE IF io = "insert_raises" THEN "cf_reply_error"
            ELSE "cf_reply_created"
  IN
  /\ io = "search_raises" => folder_name # <<>>
  /\ io = "insert_raises" => folder_name # <<>> /\ existing_folder = <<>>
  /\ IF io = "ok" THEN UNCHANGED faults ELSE Raise
  /\ IF pc = "cf_reply_created" \/ io = "insert_raises"
     THEN ReadClock ELSE UNCHANGED now
  /\ folders_db' = IF pc = "cf_reply_created"
                   THEN <<NewFolder(user_id, folder_name)>>
                   ELSE folders_db
  /\ tasks' = [tasks EXCEPT ![t] =
                 [IdleTask EXCEPT !.pc = pc, !.user = user_id,
                                  !.folder_name = folder_name]]

\* Mutant of create_folder: the document inserted also when the user has a
\* folder of that name.
CreateFolderRunInsertingAnyway(t, user_id, ud, io) ==
  LET folder_name == IF ud = None THEN <<>> ELSE ud[1]
      existing_folder == ExistingFolder(user_id, folder_name)
      pc == IF folder_name = <<>> THEN "cf_reply_prompt"
            ELSE IF io = "search_raises" THEN "cf_reply_error"
            ELSE IF existing_folder # <<>> THEN "cf_reply_exists"
            ELSE IF io = "insert_raises" THEN "cf_reply_error"
            ELSE "cf_reply_created"
  IN
  /\ io = "search_raises" => folder_name # <<>>
  /\ io = "insert_raises" => folder_name # <<>> /\ existing_folder = <<>>
  /\ IF io = "ok" THEN UNCHANGED faults ELSE Raise
  /\ IF pc = "cf_reply_created" \/ io = "insert_raises"
     THEN ReadClock ELSE UNCHANGED now
  /\ folders_db' = IF pc \in {"cf_reply_created", "cf_reply_exists"}
                   THEN Append(folders_db, NewFolder(user_id, folder_name))
                   ELSE folders_db
  /\ tasks' = [tasks EXCEPT ![t] =
                 [IdleTask EXCEPT !.pc = pc, !.user = user_id,
                                  !.folder_name = folder_name]]

StorageOutcomes == {"ok", "search_raises", "insert_raises"}

\* create_folder up to its first await: the reply the coroutine suspends in
\* and the new folders table.  io is what the storage does during the call.
CreateFolderRun(t, user_id, ud, io) ==
  LET folder_name == IF ud = None THEN <<>> ELSE ud[1]
      existing_folder == ExistingFolder(user_id, folder_name)
      pc == IF folder_name = <<>> THEN "cf_reply_prompt"
            ELSE IF io = "search_raises" THEN "cf_reply_error"
            ELSE IF existing_folder # <<>> THEN "cf_reply_exists"
            ELSE IF io = "insert_raises" THEN "cf_reply_error"
            ELSE "cf_reply_created"
  IN
  /\ io = "search_raises" => folder_name # <<>>
  /\ io = "insert_raises" => folder_name # <<>> /\ existing_folder = <<>>
  /\ IF io = "ok" THEN UNCHANGED faults ELSE Raise
  /\ IF pc = "cf_reply_created" \/ io = "insert_raises"
     THEN ReadClock ELSE UNCHANGED now
  /\ folders_db' = IF pc = "cf_reply_created"
                   THEN Append(folders_db, NewFolder(user_id, folder_name))
                   ELSE folders_db
  /\ tasks' = [tasks EXCEPT ![t] =
                 [IdleTask EXCEPT !.pc = pc, !.user = user_id,
                                  !.folder_name = folder_name]]

\* The 'New Folder' button: the entry point of the conversation.
CreateFolderEntry(t, u) ==
  /\ Deliver
  /\ FreeSlot(t)
  /\ conv[u] = END
  /\ \E io \in StorageOutcomes : CreateFolderRun(t, u, user_data[u], io)
  /\ UNCHANGED <<files_db, user_dirs, blobs, user_data, conv, reply>>

\* A text message in state FOLDER_NAME.
handle_folder_name(t, u, text) ==
  /\ Deliver
  /\ FreeSlot(t)
  /\ conv[u] = FOLDER_NAME
  /\ LET folder_name == strip(text) IN
       /\ user_data' = [user_data EXCEPT ![u] = Some(folder_name)]
       /\ \E io \in StorageOutcomes : CreateFolderRun(t, u, user_data'[u], io)
  /\ UNCHANGED <<files_db, user_dirs, blobs, conv, reply>>

\* create_folder after its reply is sent: the handler returns, and the
\* ConversationHandler moves the conversation to the state returned.
CreateFolderReturn(t) ==
  LET task == tasks[t]
      kind == CASE task.pc = "cf_reply_prompt" -> "folder_prompt"
                [] task.pc = "cf_reply_exists" -> "folder_exists"
                [] task.pc = "cf_reply_created" -> "folder_created"
                [] task.pc = "cf_reply_error" -> "folder_error"
      returned == IF task.pc = "cf_reply_prompt" THEN FOLDER_NAME ELSE END
  IN
  /\ task.pc \in {"cf_reply_prompt", "cf_reply_exists", "cf_reply_created",
                  "cf_reply_error"}
  /\ reply' = [reply EXCEPT ![task.user] =
                 [Message(kind) EXCEPT !.folder_name =
                    IF kind \in {"folder_exists", "folder_created"}
                    THEN task.folder_name ELSE <<>>]]
  /\ conv' = [conv EXCEPT ![task.user] = returned]
  /\ tasks' = [tasks EXCEPT ![t] = IdleTask]
  /\ UNCHANGED <<folders_db, files_db, user_dirs, blobs, user_data, now, updates,
                 faults>>

\* ------------------------------------------------------------ download_file
\* bot.get_file(file_id): what Telegram knows about the file
FileInfo(file_id) ==
  IF file_id = 1
  THEN [file_path |-> <<"d", "/", "a">>, file_url |-> 1, mime_type |-> "text/plain"]
  ELSE [file_path |-> <<"b">>, file_url |-> 2, mime_type |-> "image/png"]

\* client.get(file_url).content: the bytes of the file
HttpGet(file_url) == IF file_url = 1 THEN <<1>> ELSE <<2, 2>>

\* os.path.join(BASE_STORAGE_PATH, str(user_id), local_filename)
LocalPath(user_id, local_filename) ==
  [user_id |-> user_id, local_filename |-> local_filename]

\* bot.py 77-83: the stored name of an upload
LocalFilename(original_filename) ==
  [timestamp |-> strftime(now'), original |-> original_filename]

\* open(local_path, 'wb') and f.write(content)
WriteBlob(local_path, content) ==
  {b \in blobs : b.path # local_path}
    \cup {[path |-> local_path, content |-> content]}

\* os.path.getsize(local_path) once the blob is written
GetSize(content) == Len(content)

\* bot.py 92-101: the document download_file inserts
FileMetadata(task, content) ==
  [file_id |-> task.file_id,
   name |-> task.local_filename,
   original_name |-> task.local_filename.original,
   path |-> LocalPath(task.user, task.local_filename),
   user_id |-> task.user,
   size |-> GetSize(content),
   mime_type |-> task.mime_type,
   uploaded_at |-> isoformat(now')]

\* A document message: upload_file calls download_file, which suspends in
\* bot.get_file.
UploadDocument(t, u, file_id) ==
  /\ Deliver
  /\ FreeSlot(t)
  /\ tasks' = [tasks EXCEPT ![t] =
                 [IdleTask EXCEPT !.pc = "dl_get_file", !.user = u,
                                  !.file_id = file_id]]
  /\ UNCHANGED <<folders_db, files_db, user_dirs, blobs, user_data, conv, now,
                 reply, faults>>

\* bot.get_file returns or raises; download_file names the file, makes the
\* user's directory and suspends in client.get.
GetFileReturn(t) ==
  LET task == tasks[t]
      file_info == FileInfo(task.file_id)
      original_filename == LastSegment(file_info.file_path)
  IN
  /\ task.pc = "dl_get_file"
  /\ \/ /\ Raise
        /\ tasks' = [tasks EXCEPT ![t].pc = "up_reply_failed"]
        /\ UNCHANGED <<user_dirs, now>>
     \/ /\ UNCHANGED faults
        /\ ReadClock
        /\ user_dirs' = user_dirs \cup {task.user}
        /\ tasks' = [tasks EXCEPT ![t] =
                       [task EXCEPT !.pc = "dl_http",
                                    !.mime_type = file_info.mime_type,
                                    !.local_filename =
                                       LocalFilename(original_filename)]]
  /\ UNCHANGED <<folders_db, files_db, blobs, user_data, conv, reply, updates>>

DownloadOutcomes == {"ok", "http_raises", "write_raises", "insert_raises"}

\* client.get returns or raises; download_file writes the blob, builds the
\* metadata and inserts it; upload_file suspends in its reply.
HttpReturn(t) ==
  LET task == tasks[t]
      content == HttpGet(FileInfo(task.file_id).file_url)
      local_path == LocalPath(task.user, task.local_filename)
  IN
  /\ task.pc = "dl_http"
  /\ \E io \in DownloadOutcomes :
       CASE io = "http_raises" ->
              /\ Raise
              /\ tasks' = [tasks EXCEPT ![t].pc = "up_reply_failed"]
              /\ UNCHANGED <<blobs, files_db, now>>
         [] io = "write_raises" ->
              /\ Raise
              /\ blobs' = WriteBlob(local_path, <<>>)
              /\ tasks' = [tasks EXCEPT ![t].pc = "up_reply_failed"]
              /\ UNCHANGED <<files_db, now>>
         [] io = "insert_raises" ->
              /\ Raise
              /\ ReadClock
              /\ blobs' = WriteBlob(local_path, content)
              /\ tasks' = [tasks EXCEPT ![t].pc = "up_reply_failed"]
              /\ UNCHANGED files_db
         [] io = "ok" ->
              /\ UNCHANGED faults
              /\ ReadClock
              /\ blobs' = WriteBlob(local_path, content)
              /\ files_db' = Append(files_db, FileMetadata(task, content))
              /\ tasks' = [tasks EXCEPT ![t].pc = "up_reply_ok"]
  /\ UNCHANGED <<folders_db, user_dirs, user_data, conv, reply, updates>>

\* upload_file after its reply is sent
UploadReturn(t) ==
  LET task == tasks[t] IN
  /\ task.pc \in {"up_reply_ok", "up_reply_failed"}
  /\ reply' = [reply EXCEPT ![task.user] =
                 IF task.pc = "up_reply_ok"
                 THEN [Message("uploaded") EXCEPT
                         !.local_filename = task.local_filename]
                 ELSE Message("upload_failed")]
  /\ tasks' = [tasks EXCEPT ![t] = IdleTask]
  /\ UNCHANGED <<folders_db, files_db, user_dirs, blobs, user_data, conv, now,
                 updates, faults>>

\* upload_file without a document (the 'Upload' button, a photo, a video)
UploadPrompt(u) ==
  /\ Deliver
  /\ reply' = [reply EXCEPT ![u] = Message("upload_prompt")]
  /\ UNCHANGED <<folders_db, files_db, user_dirs, blobs, user_data, conv, now,
                 tasks, faults>>

\* --------------------------------------------------------------- list_files
FolderButton(folder) ==
  [text |-> <<"folder">> \o folder.name,
   callback_data |-> <<"open_folder_">> \o folder.name]

FileButton(file) ==
  [text |-> <<"file", file.name>>,
   callback_data |-> <<"file_details_", file.file_id>>]

Keyboard(folders, files) ==
  [i \in 1..Len(folders) |-> FolderButton(folders[i])]
    \o [i \in 1..Len(files) |-> FileButton(files[i])]

\* The 'Files' button: list_files up to its first await.
ListFiles(t, u) ==
  /\ Deliver
  /\ FreeSlot(t)
  /\ conv[u] = END
  /\ \/ /\ UNCHANGED faults
        /\ tasks' = [tasks EXCEPT ![t] =
                       [IdleTask EXCEPT !.pc = "lf_reply", !.user = u,
                                        !.files = list_user_files(u, <<"/">>),
                                        !.folders = list_user_folders(u, <<"/">>)]]
     \/ /\ Raise
        /\ tasks' = [tasks EXCEPT ![t] =
                       [IdleTask EXCEPT !.pc = "lf_answer_error", !.user = u]]
  /\ UNCHANGED <<folders_db, files_db, user_dirs, blobs, user_data, conv, now,
                 reply, faults>>

\* list_files after its message is sent
ListFilesReturn(t) ==
  LET task == tasks[t] IN
  /\ task.pc \in {"lf_reply", "lf_answer_error"}
  /\ reply' = [reply EXCEPT ![task.user] =
                 IF task.pc = "lf_reply"
                 THEN [Message("listing") EXCEPT
                         !.keyboard = Keyboard(task.folders, task.files)]
                 ELSE Message("list_error")]
  /\ tasks' = [tasks EXCEPT ![t] = IdleTask]
  /\ UNCHANGED <<folders_db, files_db, user_dirs, blobs, user_data, conv, now,
                 updates, faults>>

\* -------------------------------------------------------------------- start
start(u) ==
  /\ Deliver
  /\ reply' = [reply EXCEPT ![u] = Message("welcome")]
  /\ UNCHANGED <<folders_db, files_db, user_dirs, blobs, user_data, conv, now,
                 tasks, faults>>

\* ------------------------------------------------------------ specification
\* An update reaches the handler that build_application registers for it.
Dispatch(t) ==
  \E u \in Users :
    \/ CreateFolderEntry(t, u)
    \/ \E text \in Texts : handle_folder_name(t, u, text)
    \/ \E file_id \in FileIds : UploadDocument(t, u, file_id)
    \/ ListFiles(t, u)
    \/ UploadPrompt(u)
    \/ start(u)

\* A suspended handler resumes.
Resume(t) ==
  \/ CreateFolderReturn(t)
  \/ GetFileReturn(t)
  \/ HttpReturn(t)
  \/ UploadReturn(t)
  \/ ListFilesReturn(t)

\* run_polling with the builder's defaults: one update at a time.
Next ==
  \/ \E t \in Tasks : Idle /\ Dispatch(t)
  \/ \E t \in Tasks : Resume(t)

Spec == Init /\ [][Next]_vars

\* The folder conversation with its updates handled concurrently: the
\* create_folder coroutines interleave at their awaits.
NextConcurrent ==
  \/ \E t \in Tasks, u \in Users : CreateFolderEntry(t, u)
  \/ \E t \in Tasks, u \in Users, text \in Texts : handle_folder_name(t, u, text)
  \/ \E t \in Tasks : CreateFolderReturn(t)

SpecConcurrent == Init /\ [][NextConcurrent]_vars

\* Every reply create_folder awaits is answered, so the suspended handler
\* resumes.
SpecConcurrentFair ==
  SpecConcurrent /\ \A t \in Tasks : WF_vars(CreateFolderReturn(t))

\* ================================================================== claims
CreateFolderPcs ==
  {"cf_reply_prompt", "cf_reply_exists", "cf_reply_created", "cf_reply_error"}

\* The folders table holds a folder of user u named n.
HasFolder(table, u, n) ==
  \E i \in 1..Len(table) : table[i].user_id = u /\ table[i].name = n

\* Coroutine t runs create_folder for a non-empty name in this step, up to
\* its first await, and nothing raises.
CreateFolderStep(t) ==
  /\ tasks[t].pc = "idle"
  /\ tasks'[t].pc \in CreateFolderPcs
  /\ tasks'[t].folder_name # <<>>
  /\ faults' = faults

\* The document a successful create_folder of coroutine t has appended.
Inserted(t) ==
  /\ Len(folders_db') = Len(folders_db) + 1
  /\ SubSeq(folders_db', 1, Len(folders_db)) = folders_db
  /\ LET doc == folders_db'[Len(folders_db')] IN
       /\ doc.name = tasks'[t].folder_name
       /\ doc.user_id = tasks'[t].user
       /\ doc.parent = <<"/">>

\* C1: create_folder for a name the user has no folder of inserts the folder
\* and answers 'created'; the same call repeated right after it finds the
\* folder, inserts nothing and answers 'already exists', a reply different
\* from the one for success; both end the conversation.
C1_CreateThenExists ==
  /\ [][\A t \in Tasks :
          CreateFolderStep(t) =>
            IF HasFolder(folders_db, tasks'[t].user, tasks'[t].folder_name)
            THEN tasks'[t].pc = "cf_reply_exists" /\ folders_db' = folders_db
            ELSE tasks'[t].pc = "cf_reply_created" /\ Inserted(t)]_vars
  /\ [][\A t \in Tasks :
          tasks[t].pc \in {"cf_reply_exists", "cf_reply_created"}
            /\ tasks'[t].pc = "idle" =>
            /\ reply'[tasks[t].user].kind =
                 (IF tasks[t].pc = "cf_reply_created"
                  THEN "folder_created" ELSE "folder_exists")
            /\ reply'[tasks[t].user].folder_name = tasks[t].folder_name
            /\ conv'[tasks[t].user] = END]_vars
  /\ [](\A u \in Users :
          reply[u].kind = "folder_created" =>
            HasFolder(folders_db, u, reply[u].folder_name))

\* The bot has told user u that folder n was created, and the same call made
\* next is being answered 'already exists'.
C1_Witness ==
  \E t \in Tasks :
    /\ tasks[t].pc = "cf_reply_exists"
    /\ reply[tasks[t].user].kind = "folder_created"
    /\ reply[tasks[t].user].folder_name = tasks[t].folder_name

\* C2: no two documents of the folders table have the same owner, parent
\* and name.
C2_FolderKeyUnique ==
  \A i, j \in 1..Len(folders_db) :
    i # j =>
      <<folders_db[i].user_id, folders_db[i].parent, folders_db[i].name>>
        # <<folders_db[j].user_id, folders_db[j].parent, folders_db[j].name>>

\* Two users own a folder each, and a further create_folder of a name
\* already stored is being rejected.
C2_Witness ==
  /\ Len(folders_db) >= 2
  /\ \E t \in Tasks :
       /\ tasks[t].pc = "cf_reply_exists"
       /\ HasFolder(folders_db, tasks[t].user, tasks[t].folder_name)

\* The create_folder coroutines other than t that are suspended in their
\* 'created' or 'already exists' reply for the same user and name as t.
Concurrent(t) ==
  {o \in Tasks \ {t} :
     /\ tasks[o].pc \in {"cf_reply_created", "cf_reply_exists"}
     /\ tasks[o].user = tasks'[t].user
     /\ tasks[o].folder_name = tasks'[t].folder_name}

\* C3: of the create_folder coroutines in flight for the same user and name,
\* at most one has inserted and answers 'created', and the others answer
\* 'already exists'; a coroutine inserts in the very step in which its search
\* found nothing, so no step of another coroutine comes between the two.
C3_OneCreator ==
  /\ [](\A t, o \in Tasks :
          /\ t # o
          /\ tasks[t].pc = "cf_reply_created"
          /\ tasks[o].pc \in {"cf_reply_created", "cf_reply_exists"}
          /\ tasks[o].user = tasks[t].user
          /\ tasks[o].folder_name = tasks[t].folder_name
          => tasks[o].pc = "cf_reply_exists")
  /\ [][\A t \in Tasks :
          CreateFolderStep(t) =>
            /\ Concurrent(t) # {} =>
                 tasks'[t].pc = "cf_reply_exists" /\ folders_db' = folders_db
            /\ tasks'[t].pc = "cf_reply_created" =>
                 /\ ~HasFolder(folders_db, tasks'[t].user, tasks'[t].folder_name)
                 /\ Inserted(t)
            /\ folders_db' # folders_db => tasks'[t].pc = "cf_reply_created"]_vars

\* Two create_folder coroutines for the same user and name are in flight:
\* one has created the folder, the other answers 'already exists'.
C3_Witness ==
  \E t, o \in Tasks :
    /\ t # o
    /\ tasks[t].pc = "cf_reply_created"
    /\ tasks[o].pc = "cf_reply_exists"
    /\ tasks[o].user = tasks[t].user
    /\ tasks[o].folder_name = tasks[t].folder_name

\* Number of places of sequence seq that hold doc.
Count(seq, doc) == Cardinality({i \in 1..Len(seq) : seq[i] = doc})

\* C4: the folders list_files shows a user are root folders of that user
\* only, and every folder the user has created is among them once; so is it
\* in list_user_folders(owner, parent) of every stored folder.
C4_CreatedFolderListedOnce ==
  /\ \A t \in Tasks :
       tasks[t].pc = "lf_reply" =>
         /\ \A i \in 1..Len(tasks[t].folders) :
              /\ tasks[t].folders[i].user_id = tasks[t].user
              /\ tasks[t].folders[i].parent = <<"/">>
         /\ \A k \in 1..Len(folders_db) :
              folders_db[k].user_id = tasks[t].user =>
                Count(tasks[t].folders, folders_db[k]) = 1
  /\ \A k \in 1..Len(folders_db) :
       LET listed == list_user_folders(folders_db[k].user_id, folders_db[k].parent)
       IN /\ Count(listed, folders_db[k]) = 1
          /\ \A i \in 1..Len(listed) :
               /\ listed[i].user_id = folders_db[k].user_id
               /\ listed[i].parent = folders_db[k].parent

\* A user lists right after the bot told them a folder was created, and the
\* listing holds that folder.
C4_Witness ==
  \E t \in Tasks :
    /\ tasks[t].pc = "lf_reply"
    /\ reply[tasks[t].user].kind = "folder_created"
    /\ \E i \in 1..Len(tasks[t].folders) :
         tasks[t].folders[i].name = reply[tasks[t].user].folder_name

\* The folder a file document is stored under: its 'folder' field.
NoFolder == <<"no folder field">>
FolderOf(file) == IF "folder" \in DOMAIN file THEN file.folder ELSE NoFolder

\* The path of a stored folder: its name under its parent.
FolderPath(folder) ==
  IF folder.parent = <<"/">> THEN <<"/">> \o folder.name
  ELSE folder.parent \o <<"/">> \o folder.name

\* C5: every stored file document names, as its folder, the root or a stored
\* folder of the same user.
C5_FileFolderExists ==
  \A i \in 1..Len(files_db) :
    \/ FolderOf(files_db[i]) = <<"/">>
    \/ \E k \in 1..Len(folders_db) :
         /\ folders_db[k].user_id = files_db[i].user_id
         /\ FolderPath(folders_db[k]) = FolderOf(files_db[i])

\* C6: two stored file documents of one user with the same original name,
\* under the same folder, have different stored names and different local
\* paths, and each keeps the original name of its upload.
C6_StoredNamesDistinct ==
  /\ \A i, j \in 1..Len(files_db) :
       /\ i # j
       /\ files_db[i].user_id = files_db[j].user_id
       /\ files_db[i].original_name = files_db[j].original_name
       /\ FolderOf(files_db[i]) = FolderOf(files_db[j])
       => /\ files_db[i].name # files_db[j].name
          /\ files_db[i].path # files_db[j].path
  /\ \A i \in 1..Len(files_db) :
       files_db[i].original_name =
         LastSegment(FileInfo(files_db[i].file_id).file_path)

\* C7: no two documents of the files table have the same owner, folder and
\* stored name.
C7_FileKeyUnique ==
  \A i, j \in 1..Len(files_db) :
    i # j =>
      <<files_db[i].user_id, FolderOf(files_db[i]), files_db[i].name>>
        # <<files_db[j].user_id, FolderOf(files_db[j]), files_db[j].name>>

\* C8: the files list_files shows a user hold every file document of that
\* user once.
C8_UploadedFileListed ==
  \A t \in Tasks :
    tasks[t].pc = "lf_reply" =>
      \A k \in 1..Len(files_db) :
        files_db[k].user_id = tasks[t].user =>
          Count(tasks[t].files, files_db[k]) = 1

\* What user b owns and sees of the bot.
OwnFolders(table, b) == SelectSeq(table, LAMBDA doc : doc.user_id = b)

View(b) ==
  <<OwnFolders(folders_db, b), OwnFolders(files_db, b),
    list_user_folders(b, <<"/">>), list_user_files(b, <<"/">>),
    user_data[b], conv[b], reply[b]>>

\* The users the handler taking this step runs for.
Actors ==
  {tasks[t].user : t \in Tasks} \cup {tasks'[t].user : t \in Tasks}
    \cup {u \in Users : tasks' = tasks /\ reply'[u] # reply[u]}

\* C9: a step of a handler run for one user leaves what every other user
\* owns and sees unchanged; create_folder answers 'already exists' exactly
\* when the calling user owns a folder of that name; a listing shows the
\* calling user's documents only.
C9_OwnerScoped ==
  /\ [][\A b \in Users : b \notin Actors => View(b)' = View(b)]_vars
  /\ [][\A t \in Tasks :
          CreateFolderStep(t) =>
            (tasks'[t].pc = "cf_reply_exists"
               <=> \E i \in 1..Len(OwnFolders(folders_db, tasks'[t].user)) :
                     OwnFolders(folders_db, tasks'[t].user)[i].name
                       = tasks'[t].folder_name)]_vars
  /\ [](\A t \in Tasks :
          tasks[t].pc = "lf_reply" =>
            /\ \A i \in 1..Len(tasks[t].folders) :
                 tasks[t].folders[i].user_id = tasks[t].user
            /\ \A i \in 1..Len(tasks[t].files) :
                 tasks[t].files[i].user_id = tasks[t].user)

\* A user's create_folder has created a folder of a name under which another
\* user owns a folder.
C9_Witness ==
  \E t \in Tasks, a \in Users :
    /\ tasks[t].pc = "cf_reply_created"
    /\ a # tasks[t].user
    /\ HasFolder(folders_db, a, tasks[t].folder_name)
    /\ HasFolder(folders_db, tasks[t].user, tasks[t].folder_name)

\* C10: no two stored file documents of one user have the same file_id.
C10_FileIdUniquePerOwner ==
  \A i, j \in 1..Len(files_db) :
    i # j /\ files_db[i].user_id = files_db[j].user_id
      => files_db[i].file_id # files_db[j].file_id

\* The parent of a stored folder is the root or the path of a stored folder
\* of the same user.
ParentExists(folder) ==
  \/ folder.parent = <<"/">>
  \/ \E i \in 1..Len(folders_db) :
       /\ folders_db[i].user_id = folder.user_id
       /\ FolderPath(folders_db[i]) = folder.parent

\* Following parent links from path, among the folders of owner, arrives at
\* the root without coming to a path already seen.
RECURSIVE ReachesRoot(_, _, _)
ReachesRoot(owner, path, seen) ==
  IF path = <<"/">> THEN TRUE
  ELSE IF path \in seen THEN FALSE
  ELSE LET at == {i \in 1..Len(folders_db) :
                    /\ folders_db[i].user_id = owner
                    /\ FolderPath(folders_db[i]) = path}
       IN /\ at # {}
          /\ \A i \in at : ReachesRoot(owner, folders_db[i].parent,
                                       seen \cup {path})

\* C12: the stored folders of each user form a tree rooted at '/': the parent
\* of every folder is the root or a stored folder of the same user, the
\* parent links lead to the root without repeating a folder, and no stored
\* folder is the root itself.
C12_FolderTree ==
  \A i \in 1..Len(folders_db) :
    LET folder == folders_db[i] IN
      /\ ParentExists(folder)
      /\ ReachesRoot(folder.user_id, folder.parent, {FolderPath(folder)})
      /\ FolderPath(folder) # <<"/">>

\* A user who had a folder has been given a second one.
C12_Witness ==
  \E u \in Users :
    /\ reply[u].kind = "folder_created"
    /\ Cardinality({i \in 1..Len(folders_db) : folders_db[i].user_id = u}) >= 2

\* Table before is kept, document by document and in place, in table after.
Kept(before, after) ==
  /\ Len(before) <= Len(after)
  /\ SubSeq(after, 1, Len(before)) = before

\* C13: no step removes or alters a stored document: every folder and file
\* document of a state is there, with the same fields, in the next state,
\* and every stored folder is in the next state's listing of its owner and
\* parent.
C13_RecordsKept ==
  [][/\ Kept(folders_db, folders_db')
     /\ Kept(files_db, files_db')
     /\ \A i \in 1..Len(folders_db) :
          Count(list_user_folders(folders_db[i].user_id,
                                  folders_db[i].parent)',
                folders_db[i]) >= 1]_vars

\* A folder and a file have been stored after an earlier folder.
C13_Witness ==
  /\ Len(folders_db) >= 2
  /\ Len(files_db) >= 1

\* C14: file intake is all or nothing: every blob in the storage folder is
\* the blob of a stored file document, and a failed download is never
\* answered as a success.
C14_UploadAllOrNothing ==
  /\ \A blob \in blobs :
       \E i \in 1..Len(files_db) : files_db[i].path = blob.path
  /\ \A t \in Tasks :
       tasks[t].pc = "up_reply_ok" =>
         \E i \in 1..Len(files_db) :
           /\ files_db[i].user_id = tasks[t].user
           /\ files_db[i].name = tasks[t].local_filename

\* C15: every press of 'New Folder', the entry point of the folder
\* conversation, only prompts for a name: the handler suspends in the prompt
\* and the folders table is left as it was, whatever earlier conversations
\* of the user have left behind.
C15_EntryOnlyPrompts ==
  [][\A t \in Tasks :
       /\ tasks[t].pc = "idle"
       /\ tasks'[t].pc \in CreateFolderPcs
       /\ conv[tasks'[t].user] = END
       => /\ tasks'[t].pc = "cf_reply_prompt"
          /\ folders_db' = folders_db]_vars

\* The text has a character that is not whitespace.
HasContent(text) == \E i \in 1..Len(text) : text[i] # " "

EndingPcs == {"cf_reply_exists", "cf_reply_created", "cf_reply_error"}

\* The reply each suspension point of create_folder sends.
ReplyOf(pc) ==
  CASE pc = "cf_reply_prompt" -> "folder_prompt"
    [] pc = "cf_reply_exists" -> "folder_exists"
    [] pc = "cf_reply_created" -> "folder_created"
    [] pc = "cf_reply_error" -> "folder_error"

\* C16: in state FOLDER_NAME a text with a character that is not whitespace
\* ends the conversation with exactly one of 'created', 'already exists' and
\* 'error'; a text of whitespace alone is answered by the prompt and leaves
\* the conversation in FOLDER_NAME; so the conversation of a user who has
\* sent such a name comes to END.
C16_NameEndsConversation ==
  /\ [][/\ \A t \in Tasks :
             /\ tasks[t].pc = "idle"
             /\ tasks'[t].pc \in CreateFolderPcs
             /\ conv[tasks'[t].user] = FOLDER_NAME
             => \A text \in Texts :
                  handle_folder_name(t, tasks'[t].user, text) =>
                    IF HasContent(text) THEN tasks'[t].pc \in EndingPcs
                    ELSE tasks'[t].pc = "cf_reply_prompt"
        /\ \A t \in Tasks :
             tasks[t].pc \in CreateFolderPcs /\ tasks'[t].pc = "idle" =>
               LET u == tasks[t].user IN
                 /\ reply'[u].kind = ReplyOf(tasks[t].pc)
                 /\ conv'[u] = IF tasks[t].pc \in EndingPcs THEN END
                               ELSE FOLDER_NAME]_vars
  /\ \A t \in Tasks, u \in Users :
       (tasks[t].pc \in EndingPcs /\ tasks[t].user = u) ~> (conv[u] = END)

\* The handler of a name typed in state FOLDER_NAME is about to end the
\* conversation.
C16_Witness ==
  \E t \in Tasks :
    /\ tasks[t].pc \in EndingPcs
    /\ conv[tasks[t].user] = FOLDER_NAME

UploadPcs == {"dl_get_file", "dl_http", "up_reply_ok", "up_reply_failed"}

ListPcs == {"lf_reply", "lf_answer_error"}

\* Coroutine t takes a step of a handler suspending in, or resuming from,
\* one of pcs.
StepOf(t, pcs) ==
  /\ tasks'[t] # tasks[t]
  /\ tasks[t].pc \in pcs \/ tasks'[t].pc \in pcs

\* C17: a create_folder answered 'already exists' leaves the folders table
\* as it was; no step of create_folder changes the files table or the
\* stored blobs; no step of an upload changes the folders table; no step of
\* list_files, and no step in which no coroutine moves, changes either.
C17_Frame ==
  [][/\ \A t \in Tasks :
          /\ tasks[t].pc = "idle" /\ tasks'[t].pc = "cf_reply_exists"
               => folders_db' = folders_db
          /\ StepOf(t, CreateFolderPcs)
               => files_db' = files_db /\ blobs' = blobs
          /\ StepOf(t, UploadPcs) => folders_db' = folders_db
          /\ StepOf(t, ListPcs)
               => /\ folders_db' = folders_db
                  /\ files_db' = files_db
                  /\ blobs' = blobs
     /\ tasks' = tasks
          => /\ folders_db' = folders_db
             /\ files_db' = files_db
             /\ blobs' = blobs]_vars

\* create_folder answers 'already exists' while a file is stored.
C17_Witness ==
  \E t \in Tasks :
    /\ tasks[t].pc = "cf_reply_exists"
    /\ files_db # <<>>
    /\ folders_db # <<>>

\* C18: every stored folder has a name that is not empty and neither begins
\* nor ends with whitespace, and has the root as its parent.
C18_StoredNamesClean ==
  \A i \in 1..Len(folders_db) :
    LET name == folders_db[i].name IN
      /\ name # <<>>
      /\ name[1] # " "
      /\ name[Len(name)] # " "
      /\ folders_db[i].parent = <<"/">>

\* create_folder has stored the name a user typed and is about to answer
\* 'created'.
C18_Witness ==
  \E t \in Tasks :
    /\ tasks[t].pc = "cf_reply_created"
    /\ conv[tasks[t].user] = FOLDER_NAME
    /\ HasFolder(folders_db, tasks[t].user, tasks[t].folder_name)

====
